---- MODULE Spec2Model ----
(***************************************************************************)
(* Model of the lazy, reference-counted WebSocket connection and the       *)
(* subscription protocol built on it: connect, makeLazyConnect and         *)
(* subscribe.  JavaScript runs one task at a time; after each task the     *)
(* promise reactions it scheduled run in FIFO order before the next event. *)
(* The variable queue is that FIFO of pending promise reactions: transport *)
(* events and caller actions fire only when it is empty.                   *)
(***************************************************************************)
EXTENDS Integers, Sequences, FiniteSets, Bags, TLC

VARIABLES
  sockets,     \* every WebSocket constructed so far, in construction order
  connecting,  \* makeLazyConnect's `connecting`: 0 (undefined/null) or a socket
  locks,       \* makeLazyConnect's `locks`
  leases,      \* every lazyConnect() call so far, in call order
  subs,        \* the subscribe() calls
  listeners,   \* 'message' listeners attached with addEventListener
  currId,      \* the module-level `currId`
  sent,        \* bag of the envelopes handed to socket.send
  delivered,   \* the listener invocations <<subscription, id, response>>, in order
  queue        \* pending promise reactions (microtasks), FIFO

vars == <<sockets, connecting, locks, leases, subs, listeners, currId, sent,
          delivered, queue>>

(* Bounds of the model *)
MaxSockets == 2
MaxLeases == 4
MaxSubs == 2
MaxCompleteMsgs == 1
MaxDelivered == 2

(* Close codes the program distinguishes *)
NormalClosure == 1000
AbnormalClosure == 1006
FatalClosure == 4000
Codes == {NormalClosure, AbnormalClosure, FatalClosure}

(* Rejection reasons *)
None == [kind |-> "none", code |-> 0]
CloseEvent(c) == [kind |-> "close", code |-> c]
NoAckError == [kind |-> "error", code |-> 0]

(* Inbound payloads: the handshake texts and the JSON envelopes *)
Response(i, r) == [type |-> "response", id |-> i, response |-> r]
Complete(i) == [type |-> "complete", id |-> i]
Request(i) == [type |-> "request", id |-> i]
Ack == [type |-> "ack", id |-> -1]      \* the text 'ack'
Nak == [type |-> "text", id |-> -1]     \* any other text
Texts == {Ack, Nak}

(* String(data) === 'ack'
   (faulty variant: any first message acknowledges) *)
isAckMessageAny(data) == TRUE
isAckMessage(data) == data.type = "ack"

(* event.code === 1000 ? resolve() : reject(event)
   (faulty variant: every close resolves) *)
TerminalOutcomeAlwaysResolves(code) == "resolved"
TerminalOutcome(code) == IF code = NormalClosure THEN "resolved" ELSE "rejected"

(* if (!connecting)
   (faulty variant: every call connects) *)
NeedsConnectAlways(c) == TRUE
NeedsConnect(c) == c = 0

(* --locks === 0
   (faulty variant: off by one) *)
LastLockEarly(n) == n <= 1
LastLock(n) == n = 0

(* .finally(() => (connecting = null))
   (faulty variant: the attempt stays remembered) *)
FinallyKeeps(c) == c
FinallyConnecting(c) == 0

(* 'code' in err && err.code === 1006
   (faulty variants: no closure is taken for abrupt; every closure is;
   every failure is) *)
IsAbruptNever(err) == FALSE
IsAbruptAnyClose(err) == err.kind = "close"
IsAbruptAlways(err) == TRUE
IsAbrupt(err) == err.kind = "close" /\ err.code = AbnormalClosure

(* new WebSocket(url) and the bookkeeping of one connect() call *)
NewSocket ==
  [readyState |-> "CONNECTING",
   handshake |-> "pending",     \* the promise awaited at the top of connect
   connectP |-> "pending",      \* the promise connect() returned
   err |-> None,                \* the handshake's rejection reason
   terminal |-> "none",         \* the third element of the triple
   termErr |-> None,            \* its rejection reason
   closeCode |-> 0,             \* code of the close event, once fired
   closeReq |-> 0,              \* code passed to the first effective close()
   completeCalls |-> 0,         \* calls of the triple's complete()
   firstEvent |-> "none"]       \* the first event the socket fired

NewLease(s, owner) ==
  [sock |-> s,
   owner |-> owner,             \* 0: a direct caller, else the subscription
   pc |-> "awaiting",           \* awaiting / returned / failed
   released |-> FALSE,          \* the `released` promise is resolved
   calls |-> 0,                 \* calls of the release trigger so far
   thenRan |-> FALSE,           \* the released.then callback has run
   race |-> "pending",          \* the combined future
   raceErr |-> None,
   heldAtClose |-> FALSE]       \* returned and unreleased when the socket closed

NewSub ==
  [pc |-> "idle",               \* idle / connect / active / resolved / rejected
   completed |-> FALSE,
   completer |-> "early",       \* which function completerRef.current is
   lease |-> 0,                 \* lease of the running attempt
   id |-> -1,                   \* id of the running attempt
   cSock |-> 0, cId |-> -1, cLease |-> 0,   \* what the active completer closes over
   err |-> None,                \* rejection reason of waitForCompleteOrThrow
   nreq |-> 0]                  \* Request envelopes sent

Init ==
  /\ sockets = <<>>
  /\ connecting = 0
  /\ locks = 0
  /\ leases = <<>>
  /\ subs = [u \in 1..MaxSubs |-> NewSub]
  /\ listeners = {}
  /\ currId = 0
  /\ sent = EmptyBag
  /\ delivered = <<>>
  /\ queue = <<>>

Idle == queue = <<>>

(* socket.close(code, reason): effective only on a socket not yet closing *)
Close(sk, code) ==
  IF sk.readyState \in {"CONNECTING", "OPEN"}
  THEN [sk EXCEPT !.readyState = "CLOSING", !.closeReq = code]
  ELSE sk

(* The triple's complete: () => socket.close(1000, 'Normal Closure') *)
complete(sk) ==
  [Close(sk, NormalClosure) EXCEPT !.completeCalls = sk.completeCalls + 1]

(* lazyConnect up to its await: locks++, reuse or start the attempt, await it.
   q is the reaction queue the call appends to. *)
lazyConnect(owner, q) ==
  LET create == NeedsConnect(connecting)
      s == IF create THEN Len(sockets) + 1 ELSE connecting
      l == Len(leases) + 1
  IN /\ Len(leases) < MaxLeases
     /\ create => Len(sockets) < MaxSockets
     /\ locks' = locks + 1
     /\ sockets' = IF create THEN Append(sockets, NewSocket) ELSE sockets
     /\ connecting' = s
     /\ leases' = Append(leases, NewLease(s, owner))
     /\ queue' = IF ~create /\ sockets[s].connectP # "pending"
                 THEN Append(q, <<"leaseResume", l>>)
                 ELSE q

(* release(): resolves `released`; only the first call has an effect
   (faulty variant: every call schedules the released.then callback) *)
ReleasedLeases(l) == [leases EXCEPT ![l].released = TRUE, ![l].calls = @ + 1]
ReleaseJobsEveryCall(l) == <<<<"releasedThen", l>>>>
ReleaseJobs(l) == IF leases[l].released THEN <<>> ELSE <<<<"releasedThen", l>>>>

(* The reactions <<kind, l>> for the leases l in S, in call order *)
JobsOf(kind, S) ==
  LET f[n \in 0..Len(leases)] ==
        IF n = 0 THEN <<>>
        ELSE f[n - 1] \o (IF n \in S THEN <<<<kind, n>>>> ELSE <<>>)
  IN f[Len(leases)]

(* Promise.race([...]) settles with the first of its inputs to settle
   (faulty variant: a later input overwrites the outcome) *)
RaceSettlesAgain(lease) == TRUE
RaceSettles(lease) == lease.race = "pending"

(* The subscription awaiting lease l's combined future, as a reaction *)
RaceWaiter(l) ==
  LET u == leases[l].owner
  IN IF u # 0 /\ subs[u].pc = "active" /\ subs[u].lease = l
     THEN <<<<"subResume", u>>>> ELSE <<>>

(***************************************************************************)
(* Caller and transport events: each is one task, run when no reaction is  *)
(* pending.                                                                *)
(***************************************************************************)

(* A direct lazyConnect() call *)
UserLease ==
  /\ Idle
  /\ lazyConnect(0, queue)
  /\ UNCHANGED <<subs, listeners, currId, sent, delivered>>

(* A direct caller fires the release trigger of its lease, once *)
UserRelease(l) ==
  /\ Idle
  /\ leases[l].owner = 0 /\ leases[l].pc = "returned"
  /\ leases[l].calls = 0
  /\ leases' = ReleasedLeases(l)
  /\ queue' = ReleaseJobs(l)
  /\ UNCHANGED <<sockets, connecting, locks, subs, listeners, currId, sent, delivered>>

(* The listeners of socket s that an inbound payload d addresses:
   msg.complete === id, msg.id === id
   (faulty variant: the id is not compared) *)
AddressedAny(s, d) == {x \in listeners : x.sock = s}
Addressed(s, d) == {x \in listeners : x.sock = s /\ x.id = d.id}

(* listener(msg.response) by the listeners in S, in the order they were
   attached, which is the order of their ids *)
RECURSIVE ListenerCalls(_, _)
ListenerCalls(S, d) ==
  IF S = {} THEN <<>>
  ELSE LET x == CHOOSE y \in S : \A z \in S : y.id <= z.id
       IN <<<<x.sub, x.id, d.response>>>> \o ListenerCalls(S \ {x}, d)

(* The socket fires a message event: socket.onmessage, then the listeners *)
TransportMessage(s, d) ==
  LET sk == sockets[s]
      hit == Addressed(s, d)
      rel == IF d.type = "complete" THEN {x.lease : x \in hit} ELSE {}
      heard == IF d.type = "response" THEN hit ELSE {}
  IN /\ Idle
     /\ sk.readyState \in {"CONNECTING", "OPEN", "CLOSING"}
     /\ heard # {} => Len(delivered) < MaxDelivered
     /\ sockets' = [sockets EXCEPT ![s] =
          [sk EXCEPT
             !.readyState = IF @ = "CONNECTING" THEN "OPEN" ELSE @,
             !.firstEvent = IF @ = "none"
                            THEN (IF d = Ack THEN "ack" ELSE "other") ELSE @,
             !.handshake = IF @ = "pending"
                           THEN (IF isAckMessage(d) THEN "resolved" ELSE "rejected")
                           ELSE @,
             !.err = IF sk.handshake = "pending" /\ ~isAckMessage(d)
                     THEN NoAckError ELSE @]]
     /\ leases' = [l \in 1..Len(leases) |->
                     IF l \in rel
                     THEN [leases[l] EXCEPT !.released = TRUE, !.calls = @ + 1]
                     ELSE leases[l]]
     /\ delivered' = delivered \o ListenerCalls(heard, d)
     /\ queue' = (IF sk.handshake = "pending" THEN <<<<"connectResume", s>>>> ELSE <<>>)
                 \o JobsOf("releasedThen", {l \in rel : ~leases[l].released})
     /\ UNCHANGED <<connecting, locks, subs, listeners, currId, sent>>

(* The socket fires its close event with code c: socket.onclose *)
CloseEventFires(s, c) ==
  LET sk == sockets[s]
      onS == {l \in 1..Len(leases) : leases[l].sock = s /\ leases[l].pc = "returned"}
  IN /\ sockets' = [sockets EXCEPT ![s] =
          [sk EXCEPT
             !.readyState = "CLOSED",
             !.closeCode = c,
             !.firstEvent = IF @ = "none" THEN "close" ELSE @,
             !.handshake = IF sk.terminal = "none" /\ @ = "pending" THEN "rejected" ELSE @,
             !.err = IF sk.terminal = "none" /\ sk.handshake = "pending"
                     THEN CloseEvent(c) ELSE @,
             !.terminal = IF @ = "pending" THEN TerminalOutcome(c) ELSE @,
             !.termErr = IF sk.terminal = "pending" /\ TerminalOutcome(c) = "rejected"
                         THEN CloseEvent(c) ELSE @]]
     /\ leases' = [l \in 1..Len(leases) |->
                     IF l \in onS /\ ~leases[l].released
                     THEN [leases[l] EXCEPT !.heldAtClose = TRUE]
                     ELSE leases[l]]
     /\ queue' = IF sk.terminal = "pending" THEN JobsOf("terminalFinally", onS)
                 ELSE IF sk.terminal = "none" /\ sk.handshake = "pending"
                 THEN <<<<"connectResume", s>>>>
                 ELSE <<>>
     /\ UNCHANGED <<connecting, locks, subs, listeners, currId, sent, delivered>>

(* The peer or the network ends the connection with code c *)
PeerClose(s, c) ==
  /\ Idle
  /\ sockets[s].readyState \in {"CONNECTING", "OPEN", "CLOSING"}
  /\ CloseEventFires(s, c)

(* The closing handshake the client started completes with the client's code *)
CloseHandshake(s) ==
  /\ Idle
  /\ sockets[s].readyState = "CLOSING"
  /\ CloseEventFires(s, sockets[s].closeReq)

(***************************************************************************)
(* Promise reactions: the head of queue runs.                              *)
(***************************************************************************)
Head1(kind) == queue # <<>> /\ Head(queue)[1] = kind
Rest == Tail(queue)

(* connect resumes after `await new Promise(...)`: it returns the triple,
   installing the terminal onclose handler, or throws the handshake's reason;
   the lazyConnect calls awaiting `connecting` are then resumed in call order *)
ConnectResume(s) ==
  LET sk == sockets[s]
      waiting == {l \in 1..Len(leases) : leases[l].sock = s /\ leases[l].pc = "awaiting"}
  IN /\ Head1("connectResume") /\ Head(queue)[2] = s
     /\ sockets' = [sockets EXCEPT ![s] =
          IF sk.handshake = "resolved"
          THEN [sk EXCEPT !.connectP = "fulfilled", !.terminal = "pending"]
          ELSE [sk EXCEPT !.connectP = "rejected"]]
     /\ queue' = Rest \o JobsOf("leaseResume", waiting)
     /\ UNCHANGED <<connecting, locks, leases, subs, listeners, currId, sent, delivered>>

(* The caller of lazyConnect call l, resumed once the call settles *)
LeaseCaller(l) ==
  IF leases[l].owner # 0 THEN <<<<"subResume", leases[l].owner>>>> ELSE <<>>

(* lazyConnect resumes after `await connecting` with the triple: it attaches
   released.then and terminal.finally, builds the race and returns *)
LeaseReturn(l) ==
  LET sk == sockets[leases[l].sock]
  IN /\ Head1("leaseResume") /\ Head(queue)[2] = l
     /\ sk.connectP = "fulfilled"
     /\ leases' = [leases EXCEPT ![l].pc = "returned"]
     /\ queue' = Rest
                 \o (IF sk.terminal # "pending" THEN <<<<"terminalFinally", l>>>> ELSE <<>>)
                 \o LeaseCaller(l)
     /\ UNCHANGED <<sockets, connecting, locks, subs, listeners, currId, sent, delivered>>

(* lazyConnect resumes after `await connecting` with the rejection: it throws *)
LeaseFail(l) ==
  /\ Head1("leaseResume") /\ Head(queue)[2] = l
  /\ sockets[leases[l].sock].connectP = "rejected"
  /\ leases' = [leases EXCEPT ![l].pc = "failed"]
  /\ queue' = Rest \o LeaseCaller(l)
  /\ UNCHANGED <<sockets, connecting, locks, subs, listeners, currId, sent, delivered>>

(* released.then(() => { if (--locks === 0) complete(); }), which then
   settles the race if the terminal signal has not *)
ReleasedThen(l) ==
  LET s == leases[l].sock
      settles == RaceSettles(leases[l])
  IN /\ Head1("releasedThen") /\ Head(queue)[2] = l
     /\ locks' = locks - 1
     /\ sockets' = IF LastLock(locks - 1)
                   THEN [sockets EXCEPT ![s] = complete(@)]
                   ELSE sockets
     /\ leases' = [leases EXCEPT ![l].thenRan = TRUE,
                                 ![l].race = IF settles THEN "resolved" ELSE @]
     /\ queue' = Rest \o (IF settles THEN RaceWaiter(l) ELSE <<>>)
     /\ UNCHANGED <<connecting, subs, listeners, currId, sent, delivered>>

(* throwOnCloseOrWaitForComplete.finally(() => (connecting = null)), which
   then settles the race as the terminal signal settled, if release has not *)
TerminalFinally(l) ==
  LET sk == sockets[leases[l].sock]
      settles == RaceSettles(leases[l])
  IN /\ Head1("terminalFinally") /\ Head(queue)[2] = l
     /\ connecting' = FinallyConnecting(connecting)
     /\ leases' = [leases EXCEPT
          ![l].race = IF settles THEN sk.terminal ELSE @,
          ![l].raceErr = IF settles /\ sk.terminal = "rejected"
                         THEN sk.termErr ELSE @]
     /\ queue' = Rest \o (IF settles THEN RaceWaiter(l) ELSE <<>>)
     /\ UNCHANGED <<sockets, locks, subs, listeners, currId, sent, delivered>>

(***************************************************************************)
(* subscribe                                                               *)
(***************************************************************************)

(* if (completed)
   (faulty variant: the flag is ignored) *)
EarlyCompletedNever(sub) == FALSE
EarlyCompleted(sub) == sub.completed

(* socket.send(JSON.stringify(msg)) *)
Sending(msg) == sent (+) SetToBag({msg})

NumCompleteMsgs ==
  BagCardinality([e \in {x \in DOMAIN sent : x.type = "complete"} |-> sent[e]])

(* One turn of the for (;;) loop up to `await connect()` *)
Attempt(u, q) ==
  /\ lazyConnect(u, q)
  /\ subs' = [subs EXCEPT ![u].pc = "connect", ![u].lease = Len(leases) + 1]

(* throw err: waitForCompleteOrThrow rejects *)
Throw(u, err) ==
  /\ subs' = [subs EXCEPT ![u].pc = "rejected", ![u].err = err]
  /\ queue' = Rest
  /\ UNCHANGED <<sockets, connecting, locks, leases>>

(* The catch block: retry on a close event with code 1006, else rethrow *)
Catch(u, err) ==
  IF IsAbrupt(err) THEN Attempt(u, Rest) ELSE Throw(u, err)

(* subscribe(connect, request, listener): the loop starts synchronously *)
UserSubscribe(u) ==
  /\ Idle
  /\ subs[u].pc = "idle"
  /\ \A v \in 1..(u - 1) : subs[v].pc # "idle"
  /\ Attempt(u, queue)
  /\ UNCHANGED <<listeners, currId, sent, delivered>>

(* socket.send(JSON.stringify({ complete: id })): the envelope the completer
   installed after the Request sends
   (faulty variant: it bears the id the next Request will take) *)
CompleterMsgNextId(sub) == Complete(currId)
CompleterMsg(sub) == Complete(sub.cId)

(* The caller invokes the returned complete: () => completerRef.current() *)
UserComplete(u) ==
  /\ Idle
  /\ subs[u].pc # "idle"
  /\ IF subs[u].completer = "early"
     THEN /\ subs' = [subs EXCEPT ![u].completed = TRUE]
          /\ UNCHANGED <<leases, sent, queue>>
     ELSE /\ NumCompleteMsgs < MaxCompleteMsgs
          /\ sent' = Sending(CompleterMsg(subs[u]))
          /\ leases' = ReleasedLeases(subs[u].cLease)
          /\ queue' = ReleaseJobs(subs[u].cLease)
          /\ UNCHANGED subs
  /\ UNCHANGED <<sockets, connecting, locks, listeners, currId, delivered>>

SubAt(u, pc) == Head1("subResume") /\ Head(queue)[2] = u /\ subs[u].pc = pc

(* `await connect()` throws: the attempt behind the lease failed *)
SubConnectFailed(u) ==
  LET l == subs[u].lease
  IN /\ SubAt(u, "connect")
     /\ leases[l].pc = "failed"
     /\ Catch(u, sockets[leases[l].sock].err)
     /\ UNCHANGED <<listeners, currId, sent, delivered>>

(* if (completed) return release(); *)
SubEarlyComplete(u) ==
  LET l == subs[u].lease
  IN /\ SubAt(u, "connect")
     /\ leases[l].pc = "returned"
     /\ EarlyCompleted(subs[u])
     /\ leases' = ReleasedLeases(l)
     /\ queue' = Rest \o ReleaseJobs(l)
     /\ subs' = [subs EXCEPT ![u].pc = "resolved"]
     /\ UNCHANGED <<sockets, connecting, locks, listeners, currId, sent, delivered>>

(* currId++: the value currId takes
   (faulty variant: the counter is not advanced) *)
NextIdSame(c) == c
NextId(c) == c + 1

(* const id = currId++; send the Request; listen; swap the completer; await *)
SubRequest(u) ==
  LET l == subs[u].lease
      s == leases[l].sock
  IN /\ SubAt(u, "connect")
     /\ leases[l].pc = "returned"
     /\ ~EarlyCompleted(subs[u])
     /\ currId' = NextId(currId)
     /\ sent' = Sending(Request(currId))
     /\ listeners' = listeners \cup {[sock |-> s, sub |-> u, id |-> currId, lease |-> l]}
     /\ subs' = [subs EXCEPT ![u].pc = "active", ![u].id = currId,
                             ![u].completer = "active", ![u].cSock = s,
                             ![u].cId = currId, ![u].cLease = l,
                             ![u].nreq = @ + 1]
     /\ queue' = Rest \o (IF leases[l].race # "pending"
                          THEN <<<<"subResume", u>>>> ELSE <<>>)
     /\ UNCHANGED <<sockets, connecting, locks, leases, delivered>>

(* socket.removeEventListener('message', onMessage)
   (faulty variant: the handler stays attached) *)
UnlistenNot(L, x) == L
Unlisten(L, x) == L \ {x}

(* `await throwOnCloseOrWaitForRelease` resolves: unlisten and return *)
SubReleased(u) ==
  LET l == subs[u].lease
  IN /\ SubAt(u, "active")
     /\ leases[l].race = "resolved"
     /\ listeners' = Unlisten(listeners, [sock |-> leases[l].sock, sub |-> u,
                                           id |-> subs[u].id, lease |-> l])
     /\ subs' = [subs EXCEPT ![u].pc = "resolved"]
     /\ queue' = Rest
     /\ UNCHANGED <<sockets, connecting, locks, leases, currId, sent, delivered>>

(* `await throwOnCloseOrWaitForRelease` throws the close event *)
SubClosed(u) ==
  LET l == subs[u].lease
  IN /\ SubAt(u, "active")
     /\ leases[l].race = "rejected"
     /\ Catch(u, leases[l].raceErr)
     /\ UNCHANGED <<listeners, currId, sent, delivered>>

(* What the peer may send: the handshake texts and Complete envelopes; an id
   up to currId covers every id in use and one that is not *)
Payloads == Texts \cup {Complete(i) : i \in 0..currId}

(* The Response envelopes the peer may send next.  The listener treats the
   response as opaque, so the peer numbers them: the next one carries the
   number of listener invocations so far plus one, and the log of invocations
   shows which envelope each one received *)
NextResponseText == Len(delivered) + 1
Responses == {Response(i, NextResponseText) : i \in 0..currId}

(* What every caller shares: the transport's events and the reactions *)
Run ==
  \/ \E s \in 1..Len(sockets), d \in Payloads : TransportMessage(s, d)
  \/ \E s \in 1..Len(sockets), c \in Codes : PeerClose(s, c)
  \/ \E s \in 1..Len(sockets) : CloseHandshake(s)
  \/ \E s \in 1..Len(sockets) : ConnectResume(s)
  \/ \E l \in 1..Len(leases) : LeaseReturn(l)
  \/ \E l \in 1..Len(leases) : LeaseFail(l)
  \/ \E l \in 1..Len(leases) : ReleasedThen(l)
  \/ \E l \in 1..Len(leases) : TerminalFinally(l)

(* The program driven through subscribe *)
Next ==
  \/ \E u \in 1..MaxSubs : UserSubscribe(u)
  \/ \E u \in 1..MaxSubs : UserComplete(u)
  \/ \E u \in 1..MaxSubs : SubConnectFailed(u)
  \/ \E u \in 1..MaxSubs : SubEarlyComplete(u)
  \/ \E u \in 1..MaxSubs : SubRequest(u)
  \/ \E u \in 1..MaxSubs : SubReleased(u)
  \/ \E u \in 1..MaxSubs : SubClosed(u)
  \/ Run

Spec == Init /\ [][Next]_vars

(* makeLazyConnect driven by direct callers of lazyConnect *)
NextLazy ==
  \/ UserLease
  \/ \E l \in 1..Len(leases) : UserRelease(l)
  \/ Run

SpecLazy == Init /\ [][NextLazy]_vars

(* The program driven through subscribe by callers that leave completion to
   the peer, with Response envelopes inbound *)
NextDispatch ==
  \/ \E s \in 1..Len(sockets), d \in Responses : TransportMessage(s, d)
  \/ \E u \in 1..MaxSubs : UserSubscribe(u)
  \/ \E u \in 1..MaxSubs : SubConnectFailed(u)
  \/ \E u \in 1..MaxSubs : SubRequest(u)
  \/ \E u \in 1..MaxSubs : SubReleased(u)
  \/ \E u \in 1..MaxSubs : SubClosed(u)
  \/ Run

SpecDispatch == Init /\ [][NextDispatch]_vars

(* The inbound envelopes and the 'ack' that opens a connection *)
Envelopes == {Complete(i) : i \in 0..currId} \cup Responses

(* The program driven through subscribe, callers completing, on connections
   that the peer acknowledges and does not close, with Response envelopes
   inbound *)
NextOpen ==
  \/ \E s \in 1..Len(sockets) :
        sockets[s].handshake = "pending" /\ TransportMessage(s, Ack)
  \/ \E s \in 1..Len(sockets), d \in Envelopes :
        sockets[s].handshake # "pending" /\ TransportMessage(s, d)
  \/ \E u \in 1..MaxSubs : UserSubscribe(u)
  \/ \E u \in 1..MaxSubs : UserComplete(u)
  \/ \E u \in 1..MaxSubs : SubEarlyComplete(u)
  \/ \E u \in 1..MaxSubs : SubRequest(u)
  \/ \E u \in 1..MaxSubs : SubReleased(u)
  \/ \E s \in 1..Len(sockets) : CloseHandshake(s)
  \/ \E s \in 1..Len(sockets) : ConnectResume(s)
  \/ \E l \in 1..Len(leases) : LeaseReturn(l)
  \/ \E l \in 1..Len(leases) : ReleasedThen(l)
  \/ \E l \in 1..Len(leases) : TerminalFinally(l)

SpecOpen == Init /\ [][NextOpen]_vars

(***************************************************************************)
(* Properties                                                              *)
(***************************************************************************)
Sockets == 1..Len(sockets)
Leases == 1..Len(leases)
Settled(p) == p \in {"resolved", "rejected"}
LeaseCalled == Len(leases') = Len(leases) + 1
Connected == Len(sockets') = Len(sockets) + 1

(* C1: connect resolves only if the first event on the socket is the message
   'ack'; if the first event is a close event it rejects with that close
   event, if it is any other message it rejects with the "Didn't acknowledge!"
   error, and whatever arrives later never makes it resolve. *)
C1_ResolvesOnlyOnAckFirst ==
  \A s \in Sockets :
    LET sk == sockets[s]
    IN /\ sk.connectP = "fulfilled" => sk.firstEvent = "ack"
       /\ (Idle /\ sk.firstEvent # "none") => sk.connectP # "pending"
       /\ (sk.firstEvent = "close" /\ sk.connectP # "pending")
            => sk.connectP = "rejected" /\ sk.err = CloseEvent(sk.closeCode)
       /\ (sk.firstEvent = "other" /\ sk.connectP # "pending")
            => sk.connectP = "rejected" /\ sk.err = NoAckError

(* A first connection was acknowledged and has closed; the next one was
   refused for a non-ack first message and has since been closed too *)
C1_Witness ==
  /\ Len(sockets) = 2
  /\ sockets[1].connectP = "fulfilled" /\ sockets[1].readyState = "CLOSED"
  /\ sockets[2].firstEvent = "other" /\ sockets[2].connectP = "rejected"
  /\ sockets[2].readyState = "CLOSED"

(* C2: the terminal future of an acknowledged connection settles at most
   once; it is resolved exactly when the close event carried 1000 and rejected
   with the close event exactly when it carried another code; a close started
   by complete() that the transport completes on its own resolves it. *)
C2_TerminalState ==
  \A s \in Sockets :
    LET sk == sockets[s]
        closed == sk.connectP = "fulfilled" /\ sk.readyState = "CLOSED"
    IN /\ sk.terminal = "resolved" <=> (closed /\ sk.closeCode = NormalClosure)
       /\ sk.terminal = "rejected" <=> (closed /\ sk.closeCode # NormalClosure)
       /\ sk.terminal = "rejected" => sk.termErr = CloseEvent(sk.closeCode)
       /\ sk.terminal = "pending" <=> (sk.connectP = "fulfilled" /\ sk.readyState # "CLOSED")

C2_TerminalStep ==
  \A s \in Sockets :
    /\ Settled(sockets[s].terminal) =>
         /\ sockets'[s].terminal = sockets[s].terminal
         /\ sockets'[s].termErr = sockets[s].termErr
    /\ (CloseHandshake(s) /\ sockets[s].completeCalls > 0) =>
         /\ sockets'[s].closeCode = NormalClosure
         /\ sockets'[s].terminal = "resolved"

C2_TerminalSettlesOnceByCode == []C2_TerminalState /\ [][C2_TerminalStep]_vars

(* The manager completed one connection, which closed with 1000 and resolved,
   and the peer closed another with 4000, which rejected *)
C2_Witness ==
  \E s, r \in Sockets :
    /\ sockets[s].completeCalls > 0 /\ sockets[s].terminal = "resolved"
    /\ sockets[r].terminal = "rejected" /\ sockets[r].termErr = CloseEvent(FatalClosure)

(* An attempt is outstanding, or its connection is open *)
Live(s) ==
  \/ sockets[s].connectP = "pending" /\ sockets[s].readyState # "CLOSED"
  \/ sockets[s].connectP = "fulfilled" /\ sockets[s].readyState = "OPEN"

(* C3: a lazyConnect call made while a connection attempt is outstanding or
   its connection is open issues no connect and awaits that connection, so
   every such call that returns yields the same socket. *)
C3_OneConnectWhileLive ==
  [][LeaseCalled =>
       \A s \in Sockets :
         Live(s) => /\ ~Connected
                    /\ leases'[Len(leases')].sock = s
                    /\ \A l \in Leases : leases[l].pc = "awaiting" => leases[l].sock = s]_vars

(* Three calls have returned the one socket ever constructed, still open *)
C3_Witness ==
  /\ Len(sockets) = 1 /\ sockets[1].readyState = "OPEN"
  /\ Cardinality({l \in Leases : leases[l].pc = "returned" /\ leases[l].sock = 1}) >= 3

Unreleased == {l \in Leases : leases[l].pc # "failed" /\ ~leases[l].released}

(* C4: the manager calls complete() only in a step after which no lease is
   unreleased; and once every lease of a manager's first connection has been
   released, the manager has called complete() on it. *)
C4_CompleteStep ==
  \A s \in Sockets :
    sockets'[s].completeCalls > sockets[s].completeCalls => Unreleased = {}

C4_AllReleasedFirst ==
  (/\ Idle /\ Len(sockets) = 1 /\ Leases # {}
   /\ \A l \in Leases : leases[l].pc = "returned" /\ leases[l].released)
  => sockets[1].completeCalls >= 1

C4_NoCompleteWhileLeased == []C4_AllReleasedFirst /\ [][C4_CompleteStep]_vars

(* Of three leases on an open connection two are released and settled, and
   the manager has not called complete() *)
C4_Witness ==
  \E s \in Sockets :
    /\ Idle /\ sockets[s].readyState = "OPEN" /\ sockets[s].completeCalls = 0
    /\ Cardinality({l \in Leases : leases[l].sock = s /\ leases[l].pc = "returned"}) = 3
    /\ Cardinality({l \in Leases : leases[l].sock = s /\ leases[l].thenRan}) = 2

(* C5: once every lease handed out by the manager has been released, the
   manager has called complete() on the connection that is open, so that no
   acknowledged connection stays open; this is to hold also after an earlier
   connection was lost and leases were taken on a new one. *)
C5_AllReleasedThenClosed ==
  (/\ Idle /\ Leases # {}
   /\ \A l \in Leases : leases[l].pc = "returned" /\ leases[l].released)
  => \A s \in Sockets :
       sockets[s].connectP = "fulfilled" => sockets[s].readyState # "OPEN"

(* C6: a lease unreleased when its connection closes with a code other than
   1000 has its combined future rejected with the close event of that code; a
   lease released before any closure has it resolved, and it stays so. *)
C6_RaceOutcome ==
  \A l \in Leases :
    LET sk == sockets[leases[l].sock]
    IN (Idle /\ leases[l].pc = "returned") =>
         /\ (leases[l].heldAtClose /\ sk.closeCode # NormalClosure)
              => /\ leases[l].race = "rejected"
                 /\ leases[l].raceErr = CloseEvent(sk.closeCode)
         /\ (leases[l].released /\ ~leases[l].heldAtClose)
              => leases[l].race = "resolved"

(* On a connection closed with 4000 one lease had been released first and
   resolved, the other was still held and rejected with code 4000 *)
C6_Witness ==
  \E l, m \in Leases :
    /\ Idle /\ leases[l].sock = leases[m].sock
    /\ sockets[leases[l].sock].closeCode = FatalClosure
    /\ leases[l].released /\ ~leases[l].heldAtClose /\ leases[l].race = "resolved"
    /\ leases[m].heldAtClose /\ leases[m].raceErr = CloseEvent(FatalClosure)

(* C7: the terminal signal of every connection but the newest has settled, so
   a connection is started only after the previous one's terminal settled and
   at most one connection is in flight, open or closing. *)
C7_OneConnection ==
  /\ \A s \in Sockets : s < Len(sockets) => Settled(sockets[s].terminal)
  /\ Cardinality({s \in Sockets : sockets[s].readyState # "CLOSED"}) <= 1

(* Two subscriptions lost the first connection to a 1006 closure and both
   hold a lease on the second *)
C7_Witness ==
  /\ Len(sockets) = 2 /\ sockets[1].closeCode = AbnormalClosure
  /\ \E l, m \in Leases :
       /\ leases[l].owner # 0 /\ leases[m].owner # 0 /\ leases[l].owner # leases[m].owner
       /\ leases[l].sock = 2 /\ leases[m].sock = 2
       /\ leases[l].pc = "returned" /\ leases[m].pc = "returned"

(* C8: a lazyConnect call made after the latest connection attempt failed
   starts a fresh connect. *)
C8_FreshAttemptAfterFailure ==
  [][(LeaseCalled /\ sockets # <<>> /\ sockets[Len(sockets)].connectP = "rejected")
       => Connected]_vars

(* C9: once a connection's terminal signal has settled and its reactions have
   run, `connecting` no longer refers to it, and the next lazyConnect call
   constructs a new socket and awaits that one. *)
C9_ClearedState ==
  Idle => \A s \in Sockets : Settled(sockets[s].terminal) => connecting # s

C9_LeaseStep ==
  (LeaseCalled /\ sockets # <<>> /\ Settled(sockets[Len(sockets)].terminal))
    => /\ Connected
       /\ leases'[Len(leases')].sock = Len(sockets')

C9_NewConnectionAfterTerminal == []C9_ClearedState /\ [][C9_LeaseStep]_vars

(* A lease was returned on a second connection after the first one's
   terminal signal rejected *)
C9_Witness ==
  /\ Len(sockets) = 2 /\ sockets[1].terminal = "rejected"
  /\ \E l \in Leases : leases[l].sock = 2 /\ leases[l].pc = "returned"

(* C10: a subscription completed by its caller before it obtained its first
   lease sends no Request and is assigned no id; as soon as it has resumed
   with a lease, that lease is released and the wait-future is resolved. *)
C10_EarlyCompletion ==
  \A u \in 1..MaxSubs :
    subs[u].completed =>
      /\ subs[u].nreq = 0 /\ subs[u].id = -1 /\ subs[u].completer = "early"
      /\ \A x \in listeners : x.sub # u
      /\ (subs[u].pc = "connect" /\ leases[subs[u].lease].pc = "returned")
           => \E i \in 1..Len(queue) : queue[i] = <<"subResume", u>>
      /\ subs[u].pc = "resolved"
           => leases[subs[u].lease].released /\ subs[u].err = None
      /\ subs[u].pc \in {"connect", "resolved", "rejected"}

(* A subscription completed early has released the lease it obtained, with
   another subscription active on the same connection *)
C10_Witness ==
  \E u, v \in 1..MaxSubs :
    /\ subs[u].completed /\ subs[u].pc = "resolved"
    /\ leases[subs[u].lease].thenRan
    /\ subs[v].pc = "active"
    /\ leases[subs[v].lease].sock = leases[subs[u].lease].sock

(* The subscriptions whose current request on socket s has payload d's id,
   each with the response it is to hear *)
RECURSIVE C11_Expected(_, _, _)
C11_Expected(s, d, u) ==
  IF u > MaxSubs THEN <<>>
  ELSE (IF /\ d.type = "response" /\ subs[u].pc = "active" /\ subs[u].id = d.id
           /\ leases[subs[u].lease].sock = s
        THEN <<<<u, d.id, d.response>>>> ELSE <<>>) \o C11_Expected(s, d, u + 1)

(* C11: on a connection shared by active subscriptions, the arrival of a
   Response envelope invokes, in that step, exactly the listener of the
   subscription whose current id the envelope bears, once and with the
   envelope's response; a Response or Complete envelope bearing another id
   invokes no listener, and nothing else ever invokes one, so each listener
   hears its own responses in arrival order. *)
C11_DispatchStep ==
  /\ (Idle /\ UNCHANGED <<locks, subs, listeners, sent>>) =>
       \A s \in Sockets, d \in Responses :
         (C11_Expected(s, d, 1) # <<>> /\ TransportMessage(s, d))
           => delivered' = delivered \o C11_Expected(s, d, 1)
  /\ delivered' # delivered =>
       \E s \in Sockets, d \in Responses :
         /\ TransportMessage(s, d)
         /\ delivered' = delivered \o C11_Expected(s, d, 1)

C11_InOrder ==
  \A k \in 1..Len(delivered) : delivered[k][3] = k

C11_OwnResponsesInOrder == []C11_InOrder /\ [][C11_DispatchStep]_vars

(* Two subscriptions are active on one connection; the second one's listener
   heard the first Response to arrive and the first one's heard the next *)
C11_Witness ==
  /\ subs[1].pc = "active" /\ subs[2].pc = "active"
  /\ leases[subs[1].lease].sock = leases[subs[2].lease].sock
  /\ delivered = <<<<2, 1, 1>>, <<1, 0, 2>>>>

(* C12: when the caller completes a subscription that is awaiting its lease's
   combined future, the client sends one Complete envelope bearing the id of
   that subscription's current Request and releases its lease; the lease's
   release reaction is then pending, a subscription leaves the awaiting state
   with its lease released only by resolving without error, and the first
   Request of a process bears id 0. *)
C12_CompleteStep ==
  \A u \in 1..MaxSubs :
    /\ (subs[u].pc = "active" /\ UserComplete(u)) =>
         /\ sent' = sent (+) SetToBag({Complete(subs[u].id)})
         /\ leases'[subs[u].lease].released
         /\ queue' = <<<<"releasedThen", subs[u].lease>>>>
    /\ (subs[u].pc = "active" /\ leases[subs[u].lease].released
          /\ subs'[u].pc # "active") =>
         subs'[u].pc = "resolved" /\ subs'[u].err = None

C12_Pending ==
  /\ \A u \in 1..MaxSubs :
       (subs[u].pc = "active" /\ leases[subs[u].lease].released) =>
         \/ Head1("releasedThen") /\ Head(queue)[2] = subs[u].lease
         \/ /\ leases[subs[u].lease].race = "resolved"
            /\ \E i \in 1..Len(queue) : queue[i] = <<"subResume", u>>
  /\ currId > 0 => Request(0) \in DOMAIN sent
  /\ \A u \in 1..MaxSubs : (currId = 1 /\ subs[u].id >= 0) => subs[u].id = 0

C12_CallerCompletes == []C12_Pending /\ [][C12_CompleteStep]_vars

(* The first subscription sent Request 0, its caller completed it, Complete 0
   was sent and the wait-future resolved, as in the test *)
C12_Witness ==
  /\ subs[1].pc = "resolved" /\ subs[1].id = 0 /\ ~subs[1].completed
  /\ Request(0) \in DOMAIN sent /\ Complete(0) \in DOMAIN sent
  /\ leases[subs[1].lease].thenRan /\ subs[1].err = None

(* C13: a subscription resumed by the 1006 closure of its connection takes a
   new lease on another connection and stays pending without error; every
   Request a subscription sends bears an id no earlier Request bore; a
   Response bearing the id of the Request sent after the retry invokes that
   subscription's listener; and no wait-future is rejected with a 1006 close
   event. *)
C13_RetryStep ==
  \A u \in 1..MaxSubs :
    /\ (/\ SubAt(u, "active")
        /\ leases[subs[u].lease].raceErr = CloseEvent(AbnormalClosure)
        /\ subs' # subs) =>
         /\ subs'[u].pc = "connect" /\ subs'[u].err = None
         /\ subs'[u].lease = Len(leases) + 1 /\ Len(leases') = Len(leases) + 1
         /\ leases'[subs'[u].lease].sock # leases[subs[u].lease].sock
    /\ subs'[u].nreq > subs[u].nreq =>
         /\ Request(subs'[u].id) \notin DOMAIN sent
         /\ sent' = sent (+) SetToBag({Request(subs'[u].id)})
         /\ \A v \in 1..MaxSubs : subs[v].id < subs'[u].id
         /\ subs[u].lease \in Leases /\ leases[subs[u].lease].sock = Len(sockets)
    /\ \A d \in Responses :
         (/\ subs[u].pc = "active" /\ subs[u].nreq > 1 /\ d.id = subs[u].id
          /\ TransportMessage(leases[subs[u].lease].sock, d)) =>
           delivered' = Append(delivered, <<u, subs[u].id, d.response>>)

C13_Absorbed ==
  \A u \in 1..MaxSubs :
    /\ subs[u].pc = "rejected" => subs[u].err # CloseEvent(AbnormalClosure)
    /\ (/\ subs[u].pc = "active"
        /\ sockets[leases[subs[u].lease].sock].closeCode = AbnormalClosure) =>
         \/ \E i \in 1..Len(queue) : queue[i] = <<"terminalFinally", subs[u].lease>>
         \/ /\ leases[subs[u].lease].raceErr = CloseEvent(AbnormalClosure)
            /\ \E i \in 1..Len(queue) : queue[i] = <<"subResume", u>>

C13_AbruptClosureRetried == []C13_Absorbed /\ [][C13_RetryStep]_vars

(* The first connection was lost with 1006 while the subscription was
   active; the subscription sent a second Request, bearing id 1, on the second
   connection and its listener heard a Response bearing that id *)
C13_Witness ==
  /\ Len(sockets) = 2 /\ sockets[1].closeCode = AbnormalClosure
  /\ subs[1].pc = "active" /\ subs[1].nreq = 2 /\ subs[1].id = 1
  /\ subs[1].err = None /\ leases[subs[1].lease].sock = 2
  /\ delivered = <<<<1, 1, 1>>>>

(* C14: a subscription resumed by the closure of its connection with a code
   other than 1000 and 1006 rejects its wait-future with that close event,
   taking no lease and sending nothing in that step; and a subscription whose
   wait-future is rejected stays so, is never the owner of a new lease and
   sends no further Request. *)
C14_FatalStep ==
  \A u \in 1..MaxSubs :
    /\ \A c \in Codes \ {NormalClosure, AbnormalClosure} :
         (/\ SubAt(u, "active")
          /\ leases[subs[u].lease].raceErr = CloseEvent(c)
          /\ subs' # subs) =>
           /\ subs'[u].pc = "rejected" /\ subs'[u].err = CloseEvent(c)
           /\ leases' = leases /\ sent' = sent /\ sockets' = sockets
    /\ subs[u].pc = "rejected" =>
         /\ subs'[u].pc = "rejected" /\ subs'[u].err = subs[u].err
         /\ subs'[u].nreq = subs[u].nreq /\ subs'[u].lease = subs[u].lease
         /\ \A l \in 1..Len(leases') : l > Len(leases) => leases'[l].owner # u
         /\ \A x \in listeners' \ listeners : x.sub # u

C14_FatalPending ==
  \A u \in 1..MaxSubs :
    (/\ subs[u].pc = "active"
     /\ sockets[leases[subs[u].lease].sock].closeCode = FatalClosure) =>
      \/ \E i \in 1..Len(queue) : queue[i] = <<"terminalFinally", subs[u].lease>>
      \/ /\ leases[subs[u].lease].raceErr = CloseEvent(FatalClosure)
         /\ \E i \in 1..Len(queue) : queue[i] = <<"subResume", u>>

C14_FatalClosureRejects == []C14_FatalPending /\ [][C14_FatalStep]_vars

(* A subscription that had sent its Request was rejected with the 4000 close
   event of its connection; afterwards another subscription opened a second
   connection and became active there *)
C14_Witness ==
  \E u, v \in 1..MaxSubs :
    /\ subs[u].pc = "rejected" /\ subs[u].err = CloseEvent(FatalClosure)
    /\ subs[u].nreq = 1 /\ leases[subs[u].lease].sock = 1
    /\ subs[v].pc = "active" /\ leases[subs[v].lease].sock = 2

RequestsSent == {e \in DOMAIN sent : e.type = "request"}

(* C15: every Request envelope is sent once; the ids sent so far are exactly
   those below currId; and a Request, whichever subscription or retry sends
   it, bears an id greater than the id of every Request sent before it, so
   ids are pairwise distinct, increase in sending order and are never reused. *)
C15_IdsSent ==
  /\ \A e \in RequestsSent : sent[e] = 1
  /\ {e.id : e \in RequestsSent} = 0..(currId - 1)

C15_IdStep ==
  /\ currId' >= currId
  /\ \A u \in 1..MaxSubs :
       subs'[u].nreq > subs[u].nreq =>
         /\ sent' = sent (+) SetToBag({Request(subs'[u].id)})
         /\ \A e \in RequestsSent : e.id < subs'[u].id
         /\ \A v \in 1..MaxSubs : subs[v].id < subs'[u].id

C15_IdsIncrease == []C15_IdsSent /\ [][C15_IdStep]_vars

(* A subscription used ids 0 and 1, the second after a retry, and was
   completed; a later subscription's Request bears id 2 *)
C15_Witness ==
  \E u, v \in 1..MaxSubs :
    /\ subs[u].pc = "resolved" /\ subs[u].nreq = 2 /\ subs[u].id = 1
    /\ subs[v].pc = "active" /\ subs[v].id = 2
    /\ RequestsSent = {Request(0), Request(1), Request(2)}

(* The subscriptions awaiting the combined future of a lease on socket s
   under the id i *)
ActiveOn(s, i) ==
  {u \in 1..MaxSubs : /\ subs[u].pc = "active" /\ subs[u].id = i
                      /\ leases[subs[u].lease].sock = s}

(* C16: an inbound Complete envelope releases the lease of the active
   subscription whose id it bears and of no other, and sends nothing; the
   release reaction is then pending and the subscription leaves the awaiting
   state by resolving without error; the client sends a Complete envelope
   only when a caller invokes a complete function. *)
C16_CompleteStep ==
  /\ \A s \in Sockets, i \in 0..currId :
       TransportMessage(s, Complete(i)) =>
         /\ sent' = sent
         /\ \A u \in 1..MaxSubs :
              subs[u].pc = "active" =>
                /\ subs'[u] = subs[u]
                /\ leases'[subs[u].lease].released
                      = (leases[subs[u].lease].released \/ u \in ActiveOn(s, i))
         /\ \A u \in ActiveOn(s, i) :
              \E k \in 1..Len(queue') : queue'[k] = <<"releasedThen", subs[u].lease>>
  /\ (\E e \in DOMAIN sent' : e.type = "complete" /\ e \notin DOMAIN sent) =>
       \E u \in 1..MaxSubs : UserComplete(u)
  /\ \A u \in 1..MaxSubs :
       (/\ subs[u].pc = "active" /\ leases[subs[u].lease].released
        /\ subs'[u] # subs[u]) =>
         /\ subs'[u].pc = "resolved" /\ subs'[u].err = None
         /\ sent' = sent

C16_ReleasePending ==
  \A u \in 1..MaxSubs :
    (subs[u].pc = "active" /\ leases[subs[u].lease].released) =>
      /\ ~Idle
      /\ \/ \E k \in 1..Len(queue) : queue[k] = <<"releasedThen", subs[u].lease>>
         \/ leases[subs[u].lease].race = "resolved"

C16_PeerCompletes == []C16_ReleasePending /\ [][C16_CompleteStep]_vars

(* Of two subscriptions active on one connection the peer completed one: it
   resolved without error and no Complete envelope was sent; the other is
   still active and holds its lease *)
C16_Witness ==
  \E u, v \in 1..MaxSubs :
    /\ Idle /\ NumCompleteMsgs = 0
    /\ subs[u].pc = "resolved" /\ subs[u].nreq = 1 /\ subs[u].err = None
    /\ leases[subs[u].lease].thenRan
    /\ subs[v].pc = "active" /\ ~leases[subs[v].lease].released
    /\ leases[subs[v].lease].sock = leases[subs[u].lease].sock
    /\ sockets[leases[subs[v].lease].sock].readyState = "OPEN"

(* C17: a subscription resumed by the failure of the connection attempt
   behind its lease, the failure being the "Didn't acknowledge!" error or a
   close event with a code other than 1006, rejects its wait-future with that
   failure in that step, sends nothing, attaches no listener and leaves
   currId as it is; until then its resumption is pending. *)
C17_FailStep ==
  \A u \in 1..MaxSubs :
    (/\ SubAt(u, "connect")
     /\ leases[subs[u].lease].pc = "failed"
     /\ sockets[leases[subs[u].lease].sock].err # CloseEvent(AbnormalClosure)
     /\ subs' # subs) =>
      /\ subs'[u].pc = "rejected"
      /\ subs'[u].err = sockets[leases[subs[u].lease].sock].err
      /\ subs'[u].err \in {NoAckError} \cup {CloseEvent(c) : c \in Codes \ {AbnormalClosure}}
      /\ subs'[u].nreq = subs[u].nreq /\ subs'[u].id = subs[u].id
      /\ currId' = currId /\ sent' = sent /\ listeners' = listeners
      /\ leases' = leases

C17_FailPending ==
  \A u \in 1..MaxSubs :
    (/\ subs[u].pc = "connect"
     /\ sockets[leases[subs[u].lease].sock].connectP = "rejected") =>
      \/ \E k \in 1..Len(queue) : queue[k] = <<"leaseResume", subs[u].lease>>
      \/ /\ leases[subs[u].lease].pc = "failed"
         /\ \E k \in 1..Len(queue) : queue[k] = <<"subResume", u>>

C17_HandshakeFailureRejects == []C17_FailPending /\ [][C17_FailStep]_vars

(* The peer's first message was not 'ack': the subscription that started the
   attempt and the one that joined it were both rejected with the error, and
   no Request was sent and no id taken *)
C17_Witness ==
  \E u, v \in 1..MaxSubs :
    /\ u # v /\ Idle /\ currId = 0 /\ sent = EmptyBag
    /\ subs[u].pc = "rejected" /\ subs[u].err = NoAckError /\ subs[u].id = -1
    /\ subs[v].pc = "rejected" /\ subs[v].err = NoAckError /\ subs[v].id = -1

(* The lazyConnect calls that have not failed and whose combined future has
   not settled *)
Outstanding == {l \in Leases : leases[l].pc # "failed" /\ leases[l].race = "pending"}

(* C18: the lock count is never negative and, once the pending reactions
   have run, equals the number of outstanding leases: a lease whose combined
   future settled, by release or by the terminal signal, and a lease whose
   connection attempt failed no longer count. *)
C18_LocksCountOutstanding ==
  /\ locks >= 0
  /\ Idle => locks = Cardinality(Outstanding)

(* C19: the manager calls complete() at most once on each connection, also
   when a lease is taken and released after the count reached zero and before
   the connection's terminal signal settled. *)
C19_CompleteAtMostOnce ==
  \A s \in Sockets : sockets[s].completeCalls <= 1

(* C20: a lazyConnect call never returns the handle of a connection on which
   the manager has already called complete(). *)
C20_NoLeaseOnCompleted ==
  [][\A l \in Leases :
       (leases[l].pc = "awaiting" /\ leases'[l].pc = "returned")
         => sockets[leases[l].sock].completeCalls = 0]_vars

(* The leases whose released.then callback runs in the step *)
ThenRuns == {l \in Leases : ~leases[l].thenRan /\ leases'[l].thenRan}

(* C21: a call of a lease's release trigger after the first changes nothing
   in the manager, whether or not the connection's terminal signal has
   settled; the lock count goes down only by one and only as the
   released.then callback of one lease runs, which it does once per lease and
   only after a release; and complete() is called only by such a callback. *)
C21_LatchStep ==
  /\ \A l \in Leases :
       /\ (leases[l].calls >= 1 /\ leases'[l].calls > leases[l].calls) =>
            /\ leases' = [leases EXCEPT ![l].calls = @ + 1]
            /\ UNCHANGED <<sockets, connecting, locks, queue>>
       /\ leases[l].thenRan => leases'[l].thenRan
       /\ l \in ThenRuns => leases[l].released
  /\ locks' # locks =>
       \/ locks' = locks + 1 /\ LeaseCalled
       \/ locks' = locks - 1 /\ Cardinality(ThenRuns) = 1
  /\ \A s \in Sockets :
       sockets'[s].completeCalls # sockets[s].completeCalls =>
         /\ sockets'[s].completeCalls = sockets[s].completeCalls + 1
         /\ \E l \in ThenRuns : leases[l].sock = s /\ locks' = 0

C21_Latched ==
  \A l \in Leases :
    /\ leases[l].released <=> leases[l].calls >= 1
    /\ leases[l].thenRan => leases[l].released

C21_ReleaseIsLatch == []C21_Latched /\ [][C21_LatchStep]_vars

(* A subscription's release trigger was called twice, by its message handler
   on the peer's Complete and by its caller's complete; the lock count was
   taken down once, to zero, and complete() was called once *)
C21_Witness ==
  \E l \in Leases :
    /\ Idle /\ leases[l].calls = 2 /\ leases[l].thenRan /\ locks = 0
    /\ Len(leases) = 1 /\ sockets[leases[l].sock].completeCalls = 1

(* C22: a message handler stays attached only while the combined future of
   its lease is pending or the subscription's resumption from it is; once the
   subscription has proceeded, by resolving, retrying or rejecting, the
   handler of that attempt is detached. *)
C22_DetachedOnSettle ==
  \A x \in listeners :
    \/ leases[x.lease].race = "pending"
    \/ /\ subs[x.sub].pc = "active" /\ subs[x.sub].lease = x.lease
       /\ \E k \in 1..Len(queue) : queue[k] = <<"subResume", x.sub>>

(* C23: no Complete envelope is sent twice for one id, and a call of the
   complete function of a subscription whose wait-future has resolved sends
   nothing and changes neither the subscription nor the manager. *)
C23_OnePerId ==
  \A e \in DOMAIN sent : e.type = "complete" => sent[e] <= 1

C23_AfterCompletion ==
  \A u \in 1..MaxSubs :
    (subs[u].pc = "resolved" /\ UserComplete(u)) =>
      UNCHANGED <<sent, subs, sockets, connecting, locks, queue>>

C23_CompleteIsIdempotent == []C23_OnePerId /\ [][C23_AfterCompletion]_vars

(* C24: a subscription whose wait-future has settled stays as it is: it
   takes no lease, sends no Request, gets no id and attaches no handler; and
   a subscription starts another attempt only from a 1006 close event, thrown
   by the combined future or by the connection attempt. *)
C24_TerminalStep ==
  \A u \in 1..MaxSubs :
    /\ subs[u].pc \in {"resolved", "rejected"} =>
         /\ subs'[u].pc = subs[u].pc /\ subs'[u].err = subs[u].err
         /\ subs'[u].lease = subs[u].lease /\ subs'[u].id = subs[u].id
         /\ subs'[u].nreq = subs[u].nreq
         /\ \A l \in 1..Len(leases') : l > Len(leases) => leases'[l].owner # u
         /\ \A x \in listeners' \ listeners : x.sub # u
    /\ (subs[u].pc # "idle" /\ subs'[u].lease # subs[u].lease) =>
         /\ subs'[u].pc = "connect"
         /\ \/ /\ subs[u].pc = "active"
               /\ leases[subs[u].lease].raceErr = CloseEvent(AbnormalClosure)
            \/ /\ subs[u].pc = "connect"
               /\ leases[subs[u].lease].pc = "failed"
               /\ sockets[leases[subs[u].lease].sock].err = CloseEvent(AbnormalClosure)

C24_SettledIsTerminal == [][C24_TerminalStep]_vars

(* Two subscriptions retried after a 1006 closure; then one was completed
   and resolved, the other was rejected by a 4000 closure, and both have
   stayed so with two Requests each *)
C24_Witness ==
  \E u, v \in 1..MaxSubs :
    /\ Idle
    /\ subs[u].pc = "resolved" /\ subs[u].nreq = 2
    /\ subs[v].pc = "rejected" /\ subs[v].nreq = 2
    /\ subs[v].err = CloseEvent(FatalClosure)

(* The caller has called the complete function of subscription u: the early
   completer set the flag, or the later one sent its Complete envelope *)
CompleteCalled(u) ==
  \/ subs[u].completed
  \/ subs[u].cId >= 0 /\ Complete(subs[u].cId) \in DOMAIN sent

(* C25: once the caller has called a subscription's complete function, in
   whatever state of its lifecycle, the subscription sends no further
   Request. *)
C25_NoRequestAfterComplete ==
  [][\A u \in 1..MaxSubs :
       CompleteCalled(u) => subs'[u].nreq = subs[u].nreq]_vars

(* C26: a listener is invoked only for a subscription that is awaiting its
   combined future with its lease unreleased, under its current id; a
   subscription completed by its caller or by the peer has resolved and lost
   its message handler before the next envelope arrives, so Responses that
   still bear its id invoke nothing. *)
C26_InvokedStep ==
  \A k \in (Len(delivered) + 1)..Len(delivered') :
    LET u == delivered'[k][1]
    IN /\ subs[u].pc = "active" /\ subs[u].id = delivered'[k][2]
       /\ ~leases[subs[u].lease].released
       /\ ~CompleteCalled(u)

C26_Unheard ==
  \A u \in 1..MaxSubs :
    /\ subs[u].pc = "resolved" => \A x \in listeners : x.sub # u
    /\ (Idle /\ subs[u].pc = "active") =>
         ~leases[subs[u].lease].released /\ ~CompleteCalled(u)

C26_SilentAfterCompletion == []C26_Unheard /\ [][C26_InvokedStep]_vars

(* A subscription heard a Response, was completed by its caller and
   resolved; the connection it shared with an active subscription is still
   open, so Responses bearing its id can still arrive *)
C26_Witness ==
  \E u, v \in 1..MaxSubs :
    /\ Idle /\ subs[u].pc = "resolved" /\ Complete(subs[u].id) \in DOMAIN sent
    /\ delivered = <<<<u, subs[u].id, 1>>>>
    /\ subs[v].pc = "active"
    /\ leases[subs[v].lease].sock = leases[subs[u].lease].sock
    /\ sockets[leases[subs[u].lease].sock].readyState = "OPEN"

====
